---- MODULE Spec2Model ----
(***************************************************************************)
(* Ada's Adaptive Pattern Compressor (AAPC), RLE-only variant.             *)
(*                                                                         *)
(* compress (src/compression.rs) and decompress (src/decompression.rs) are *)
(* modelled loop iteration by loop iteration, as the callers in            *)
(* src/main.rs chain them: a session either compresses a raw buffer and    *)
(* decompresses the result (the test harness), or decompresses a given     *)
(* buffer and compresses the result (the Decompress and Compress           *)
(* commands, one after the other); either way the calls go on alternating  *)
(* up to MaxCalls.                                                         *)
(*                                                                         *)
(* A compressed buffer (Vec<u8>) is a sequence of bytes.  A raw buffer     *)
(* (Vec<u8> as well) is held as the list of its maximal runs,              *)
(* <<value, count>>, so that a buffer of BLOCK_SIZE + 1 equal bytes is a   *)
(* small value; BufLen, BufAt, BufPush and BufResize are len(), indexing,  *)
(* push() and resize() on that form, and two raw buffers are the same      *)
(* bytes exactly when their run lists are equal.                           *)
(***************************************************************************)
EXTENDS Integers, Sequences, FiniteSets

VARIABLES
  mode,        \* "roundtrip": compress first; "inverse": decompress first
  calls,       \* number of compress/decompress calls started in the session
  pc,          \* position in the code
  data,        \* compress: the argument `data` (raw buffer)
  output,      \* compress: `output`
  blk,         \* compress: number of chunks of data.chunks(BLOCK_SIZE) taken
  i,           \* compress: `i`
  encoded,     \* compress: `encoded`
  compressed,  \* decompress: the argument `compressed`
  idx,         \* decompress: `idx`
  block_count, \* decompress: `block_count`
  blocks_done, \* decompress: iterations of `for _ in 0..block_count` begun
  block_end,   \* decompress: `block_end`
  decoded      \* decompress: `output`

vars == <<mode, calls, pc, data, output, blk, i, encoded,
          compressed, idx, block_count, blocks_done, block_end, decoded>>

---------------------------------------------------------------------------
(* Program constants *)

BLOCK_SIZE == 262144

\* faulty variants of MIN_RUN: runs of 2, and single bytes, count as runs
MIN_RUN_Two == 3 - 1

MIN_RUN_One == 3 - 2

MIN_RUN == 3

\* faulty variant of MAX_RUN: a cap that no longer fits the length byte
MAX_RUN_Over == 255 + 1

MAX_RUN == 255

FLAG_RUN == 254

FLAG_ESC == 255

---------------------------------------------------------------------------
(* Bounds of the model *)

\* longest raw buffer enumerated byte by byte
MaxLen == 5

\* most payload bytes, over all blocks, in an enumerated compressed buffer
MaxPayload == 3

\* most blocks in an enumerated compressed buffer
MaxBlocks == 2

\* calls of compress/decompress chained in one session
MaxCalls == 4

Min(a, b) == IF a < b THEN a ELSE b

---------------------------------------------------------------------------
(* Raw buffers as run lists *)

RECURSIVE BufLen(_)
BufLen(b) == IF b = <<>> THEN 0 ELSE b[1][2] + BufLen(Tail(b))

\* b[k], k counted from 0 as in the source
RECURSIVE BufAt(_, _)
BufAt(b, k) == IF k < b[1][2] THEN b[1][1] ELSE BufAt(Tail(b), k - b[1][2])

\* b.resize(b.len() + n, v)
BufResize(b, n, v) ==
  IF n = 0 THEN b
  ELSE IF b # <<>> /\ b[Len(b)][1] = v
       THEN [b EXCEPT ![Len(b)] = <<v, b[Len(b)][2] + n>>]
       ELSE Append(b, <<v, n>>)

\* b.push(v)
BufPush(b, v) == BufResize(b, 1, v)

\* the raw buffer holding the bytes of sequence s
RECURSIVE BufOf(_)
BufOf(s) ==
  IF s = <<>> THEN <<>>
  ELSE BufPush(BufOf(SubSeq(s, 1, Len(s) - 1)), s[Len(s)])

---------------------------------------------------------------------------
(* compress *)

\* faulty variant of ToBeBytes: to_le_bytes
ToBeBytes_LE(n) ==
  << n % 256, (n \div 256) % 256, (n \div 65536) % 256, (n \div 16777216) % 256 >>

\* (n as u32).to_be_bytes(): the top byte keeps the low 8 bits of n / 2^24
ToBeBytes(n) ==
  << (n \div 16777216) % 256, (n \div 65536) % 256, (n \div 256) % 256, n % 256 >>

\* faulty variants of BlockCount: rounding down, and one block too many
BlockCount_Floor(len) == len \div BLOCK_SIZE

BlockCount_PlusOne(len) == len \div BLOCK_SIZE + 1

\* (data.len() + BLOCK_SIZE - 1) / BLOCK_SIZE
BlockCount(len) == (len + BLOCK_SIZE - 1) \div BLOCK_SIZE

\* data.chunks(BLOCK_SIZE) yields a k-th chunk (k from 0)
HasChunk(len, k) == k * BLOCK_SIZE < len

\* block.len() of the k-th chunk
ChunkLen(len, k) == Min(BLOCK_SIZE, len - k * BLOCK_SIZE)

\* block[j] of the k-th chunk
BlockAt(b, k, j) == BufAt(b, k * BLOCK_SIZE + j)

\* the inner while loop's condition at a given run_len; block is the k-th
\* chunk, of length len, and byte = block[at]
Continues(b, k, len, at, byte, run_len) ==
  /\ at + run_len < len
  /\ BlockAt(b, k, at + run_len) = byte
  /\ run_len < MAX_RUN

\* run_len when the inner while loop ends: the loop counts up from 1, so it
\* ends at the least run_len at which its condition fails
RunScan(b, k, len, at, byte) ==
  LET Stops == { r \in 1..Min(MAX_RUN, len - at) :
                   ~Continues(b, k, len, at, byte, r) }
  IN CHOOSE r \in Stops : \A q \in Stops : r <= q

\* faulty variants of Token: flag values pushed bare, and the escape test
\* made before the run test
Token_NoEscape(run_len, byte) ==
  IF run_len >= MIN_RUN THEN << FLAG_RUN, run_len % 256, byte >>
  ELSE << byte >>

Token_EscapeFirst(run_len, byte) ==
  IF byte = 254 \/ byte = 255 THEN << FLAG_ESC, byte >>
  ELSE IF run_len >= MIN_RUN THEN << FLAG_RUN, run_len % 256, byte >>
  ELSE << byte >>

\* the bytes pushed to `encoded` for one position
Token(run_len, byte) ==
  IF run_len >= MIN_RUN THEN << FLAG_RUN, run_len % 256, byte >>
  ELSE IF byte = 254 \/ byte = 255 THEN << FLAG_ESC, byte >>
  ELSE << byte >>

\* faulty variant of Advance: the cursor always moves by 1
Advance_One(run_len) == 1

\* how far `i` moves
Advance(run_len) == IF run_len >= MIN_RUN THEN run_len ELSE 1

CompressEntry ==
  /\ pc = "c_entry"
  /\ calls' = calls + 1
  /\ output' = ToBeBytes(BlockCount(BufLen(data)))
  /\ blk' = 0
  /\ i' = 0
  /\ encoded' = <<>>
  /\ pc' = "c_chunk"
  /\ UNCHANGED <<mode, data, compressed, idx, block_count, blocks_done,
                 block_end, decoded>>

CompressChunk ==
  /\ pc = "c_chunk"
  /\ IF HasChunk(BufLen(data), blk)
     THEN /\ i' = 0
          /\ encoded' = <<>>
          /\ pc' = "c_token"
     ELSE /\ pc' = "c_ret"
          /\ UNCHANGED <<i, encoded>>
  /\ UNCHANGED <<mode, calls, data, output, blk, compressed, idx, block_count,
                 blocks_done, block_end, decoded>>

CompressToken ==
  /\ pc = "c_token"
  /\ i < ChunkLen(BufLen(data), blk)
  /\ LET byte == BlockAt(data, blk, i)
         run_len == RunScan(data, blk, ChunkLen(BufLen(data), blk), i, byte)
     IN /\ encoded' = encoded \o Token(run_len, byte)
        /\ i' = i + Advance(run_len)
  /\ UNCHANGED <<mode, calls, pc, data, output, blk, compressed, idx,
                 block_count, blocks_done, block_end, decoded>>

CompressEndBlock ==
  /\ pc = "c_token"
  /\ ~(i < ChunkLen(BufLen(data), blk))
  /\ output' = output \o ToBeBytes(Len(encoded)) \o encoded
  /\ encoded' = <<>>          \* moved into output
  /\ blk' = blk + 1
  /\ pc' = "c_chunk"
  /\ UNCHANGED <<mode, calls, data, i, compressed, idx, block_count,
                 blocks_done, block_end, decoded>>

\* the caller takes the returned buffer (output is moved out) and, if the
\* session goes on, hands it to decompress
CompressReturn ==
  /\ pc = "c_ret"
  /\ IF calls < MaxCalls
     THEN /\ compressed' = output
          /\ output' = <<>>
          /\ pc' = "d_entry"
     ELSE /\ pc' = "done"
          /\ UNCHANGED <<compressed, output>>
  /\ UNCHANGED <<mode, calls, data, blk, i, encoded, idx, block_count,
                 blocks_done, block_end, decoded>>

---------------------------------------------------------------------------
(* decompress *)

\* u32::from_be_bytes
FromBeBytes(s) == s[1] * 16777216 + s[2] * 65536 + s[3] * 256 + s[4]

\* compressed[at..at + 4] is inside the buffer
SliceInBounds(c, at) == at + 4 <= Len(c)

\* compressed[at] is inside the buffer
IndexInBounds(c, at) == at < Len(c)

\* faulty variant of InRange: the range taken as 1..block_count
InRange_FromOne(n, count) == n + 1 < count

\* `for _ in 0..block_count` has an n-th iteration (n from 0)
InRange(n, count) == n < count

\* bytes read after the flag byte
Operands(flag) ==
  IF flag = FLAG_ESC THEN 1 ELSE IF flag = FLAG_RUN THEN 2 ELSE 0

\* what one token appends to the output; c[at] is the flag (at from 0)
Emit(out, c, at) ==
  LET flag == c[at + 1]
  IN IF flag = FLAG_ESC THEN BufPush(out, c[at + 2])
     ELSE IF flag = FLAG_RUN THEN BufResize(out, c[at + 2], c[at + 3])
     ELSE BufPush(out, flag)

DecompressEntry ==
  /\ pc = "d_entry"
  /\ calls' = calls + 1
  /\ decoded' = <<>>
  /\ blocks_done' = 0
  /\ block_end' = 0
  /\ IF SliceInBounds(compressed, 0)
     THEN /\ block_count' = FromBeBytes(SubSeq(compressed, 1, 4))
          /\ idx' = 4
          /\ pc' = "d_block"
     ELSE /\ pc' = "panic"
          /\ idx' = 0
          /\ block_count' = 0
  /\ UNCHANGED <<mode, data, output, blk, i, encoded, compressed>>

DecompressBlock ==
  /\ pc = "d_block"
  /\ IF InRange(blocks_done, block_count)
     THEN IF SliceInBounds(compressed, idx)
          THEN LET comp_len == FromBeBytes(SubSeq(compressed, idx + 1, idx + 4))
               IN /\ idx' = idx + 4
                  /\ block_end' = idx + 4 + comp_len
                  /\ blocks_done' = blocks_done + 1
                  /\ pc' = "d_token"
          ELSE /\ pc' = "panic"
               /\ UNCHANGED <<idx, block_end, blocks_done>>
     ELSE /\ pc' = "d_ret"
          /\ UNCHANGED <<idx, block_end, blocks_done>>
  /\ UNCHANGED <<mode, calls, data, output, blk, i, encoded, compressed,
                 block_count, decoded>>

DecompressToken ==
  /\ pc = "d_token"
  /\ idx < block_end
  /\ IF /\ IndexInBounds(compressed, idx)
        /\ IndexInBounds(compressed, idx + Operands(compressed[idx + 1]))
     THEN /\ decoded' = Emit(decoded, compressed, idx)
          /\ idx' = idx + 1 + Operands(compressed[idx + 1])
          /\ pc' = "d_token"
     ELSE /\ pc' = "panic"
          /\ UNCHANGED <<decoded, idx>>
  /\ UNCHANGED <<mode, calls, data, output, blk, i, encoded, compressed,
                 block_count, blocks_done, block_end>>

DecompressEndBlock ==
  /\ pc = "d_token"
  /\ ~(idx < block_end)
  /\ pc' = "d_block"
  /\ UNCHANGED <<mode, calls, data, output, blk, i, encoded, compressed, idx,
                 block_count, blocks_done, block_end, decoded>>

\* the caller takes the returned buffer; in the harness it is compared with
\* the original (assert_eq!), and if the session goes on it is compressed
DecompressReturn ==
  /\ pc = "d_ret"
  /\ IF mode = "roundtrip" /\ calls = 2 /\ decoded # data
     THEN /\ pc' = "mismatch"
          /\ UNCHANGED data
     ELSE IF calls < MaxCalls
          THEN /\ data' = decoded
               /\ pc' = "c_entry"
          ELSE /\ pc' = "done"
               /\ UNCHANGED data
  /\ UNCHANGED <<mode, calls, output, blk, i, encoded, compressed, idx,
                 block_count, blocks_done, block_end, decoded>>

---------------------------------------------------------------------------
(* Inputs *)

SeqsUpTo(S, n) == UNION { [1..k -> S] : k \in 0..n }

\* byte values of the enumerated raw buffers: two plain values, both flags
RawBytes == {7, 8, 254, 255}

\* byte values of the files that hold one long run (read at main.rs 57, 168, 212)
RunBytes == {7, 254}

\* sizes of those files, around the run cap; the generated test's own runs
\* (1..99 bytes inside a buffer of 2048 bytes or more) are not among them
RunLens == { MAX_RUN, MAX_RUN + 1, MAX_RUN + MIN_RUN }

\* buffers around the block size: one run, and a run after one other byte
BlockLens == { BLOCK_SIZE - 1, BLOCK_SIZE, BLOCK_SIZE + 1 }

BlockRuns ==
  { << <<v, n>> >> : v \in RunBytes, n \in BlockLens }
    \cup { << <<8, 1>>, <<v, n - 1>> >> : v \in RunBytes, n \in BlockLens }

RawInputs ==
  { BufOf(s) : s \in SeqsUpTo(RawBytes, MaxLen) }
    \cup { << <<v, n>> >> : v \in RunBytes, n \in RunLens }
    \cup BlockRuns

\* payload byte values of the enumerated compressed buffers: 3 is a plain
\* value and a run length
PayloadBytes == {3, 254, 255}

RECURSIVE Concat(_)
Concat(ss) == IF ss = <<>> THEN <<>> ELSE ss[1] \o Concat(Tail(ss))

\* lists of n payloads holding at most budget bytes in all
RECURSIVE PayloadListsOf(_, _)
PayloadListsOf(n, budget) ==
  IF n = 0 THEN { <<>> }
  ELSE UNION { { <<p>> \o rest : rest \in PayloadListsOf(n - 1, budget - Len(p)) } :
               p \in SeqsUpTo(PayloadBytes, budget) }

\* lists of at most MaxBlocks payloads holding at most MaxPayload bytes
PayloadLists == UNION { PayloadListsOf(n, MaxPayload) : n \in 0..MaxBlocks }

\* the framing of payloads ps under block count n, the last block's length
\* prefix being d
Frame(n, ps, d) ==
  ToBeBytes(n) \o
  Concat([k \in 1..Len(ps) |->
            ToBeBytes(IF k = Len(ps) THEN d ELSE Len(ps[k])) \o ps[k]])

\* buffers whose block count or last length prefix may be wrong; bytes left
\* after the last block (d below its payload's length) come with a block
\* count that does not reach them, so that no length prefix is read from
\* payload bytes (whose value, up to 255 * 2^24, is outside the model's
\* integers)
Misframed ==
  { Frame(f[1], f[2], f[3]) :
      f \in { g \in (0..(MaxBlocks + 1)) \X (PayloadLists \ {<<>>})
                     \X (0..(MaxPayload + 1)) :
                g[3] >= Len(g[2][Len(g[2])]) \/ g[1] <= Len(g[2]) } }

\* buffers with consistent block count and length prefixes, and their prefixes
Truncated ==
  UNION { LET c == Frame(Len(ps), ps, IF ps = <<>> THEN 0 ELSE Len(ps[Len(ps)]))
          IN { SubSeq(c, 1, n) : n \in 0..Len(c) } : ps \in PayloadLists }

CompressedInputs == Misframed \cup Truncated

---------------------------------------------------------------------------

Init ==
  /\ calls = 0
  /\ output = <<>>
  /\ blk = 0
  /\ i = 0
  /\ encoded = <<>>
  /\ idx = 0
  /\ block_count = 0
  /\ blocks_done = 0
  /\ block_end = 0
  /\ decoded = <<>>
  /\ \/ /\ mode = "roundtrip"
        /\ pc = "c_entry"
        /\ data \in RawInputs
        /\ compressed = <<>>
     \/ /\ mode = "inverse"
        /\ pc = "d_entry"
        /\ compressed \in CompressedInputs
        /\ data = <<>>

Next ==
  \/ CompressEntry
  \/ CompressChunk
  \/ CompressToken
  \/ CompressEndBlock
  \/ CompressReturn
  \/ DecompressEntry
  \/ DecompressBlock
  \/ DecompressToken
  \/ DecompressEndBlock
  \/ DecompressReturn

Spec == Init /\ [][Next]_vars

---------------------------------------------------------------------------
(* Helpers of the properties *)

\* ceil(n / d), by cases
CeilDiv(n, d) == IF n % d = 0 THEN n \div d ELSE n \div d + 1

\* the first n bytes of raw buffer b
RECURSIVE BufTake(_, _)
BufTake(b, n) ==
  IF n = 0 \/ b = <<>> THEN <<>>
  ELSE IF n < b[1][2] THEN << <<b[1][1], n>> >>
       ELSE << b[1] >> \o BufTake(Tail(b), n - b[1][2])

\* the number of (length prefix, payload) blocks that fill c exactly from
\* offset at on, or -1 when the prefixes do not tile c
RECURSIVE BlocksFrom(_, _)
BlocksFrom(c, at) ==
  IF at = Len(c) THEN 0
  ELSE IF at + 4 > Len(c) THEN -1
  ELSE LET e == at + 4 + FromBeBytes(SubSeq(c, at + 1, at + 4))
       IN IF e > Len(c) THEN -1
          ELSE LET rest == BlocksFrom(c, e)
               IN IF rest < 0 THEN -1 ELSE rest + 1

\* a compress call is at the head of its token loop, at a byte of its block
AtToken == pc = "c_token" /\ i < ChunkLen(BufLen(data), blk)

\* the step is one iteration of compress's token loop
TokenStep == AtToken /\ pc' = "c_token" /\ i' # i

\* the bytes the step appended to `encoded`
Pushed == SubSeq(encoded', Len(encoded) + 1, Len(encoded'))

\* the block has at least n more bytes at the cursor, all equal to block[i]
RunAhead(n) ==
  /\ i + n <= ChunkLen(BufLen(data), blk)
  /\ \A j \in 0..(n - 1) : BlockAt(data, blk, i + j) = BlockAt(data, blk, i)

\* the running decompress call was given a buffer that compress returned
DecodingEncoderOutput ==
  /\ pc \in {"d_block", "d_token", "d_ret", "panic"}
  /\ calls >= 2

---------------------------------------------------------------------------
(* C1: round trip.  Whenever decompress returns from a buffer that compress *)
(* produced, its output equals the raw buffer that was compressed, byte for *)
(* byte; decompress never fails on such a buffer and the harness's          *)
(* assert_eq! never fires.  The raw buffers include the empty one and       *)
(* lengths BLOCK_SIZE - 1, BLOCK_SIZE and BLOCK_SIZE + 1.                   *)
C1_RoundTrip ==
  /\ (pc = "d_ret" /\ calls >= 2) => decoded = data
  /\ pc = "panic" => (mode = "inverse" /\ calls = 1)
  /\ pc # "mismatch"

\* a buffer of BLOCK_SIZE + 1 equal bytes has gone through compress and decompress
C1_Witness ==
  /\ mode = "roundtrip"
  /\ pc = "d_ret"
  /\ BufLen(data) = BLOCK_SIZE + 1
  /\ decoded = data

\* a token-loop iteration at a byte 254 or 255 pushes a run token when at
\* least 3 equal bytes lie ahead in the block, and the escaped byte otherwise
C2_EscapeStep ==
  (TokenStep /\ BlockAt(data, blk, i) \in {254, 255}) =>
     IF RunAhead(3)
     THEN \E n \in 3..255 : Pushed = <<254, n, BlockAt(data, blk, i)>>
     ELSE Pushed = <<255, BlockAt(data, blk, i)>> /\ i' = i + 1

\* the outputs of compress([254]), compress([255]), compress([254,254,254])
C2_Examples ==
  pc = "c_ret" =>
    /\ data = BufOf(<<254>>) => output = <<0, 0, 0, 1, 0, 0, 0, 2, 255, 254>>
    /\ data = BufOf(<<255>>) => output = <<0, 0, 0, 1, 0, 0, 0, 2, 255, 255>>
    /\ data = BufOf(<<254, 254, 254>>)
         => output = <<0, 0, 0, 1, 0, 0, 0, 3, 254, 3, 254>>

(* C2: escaping.  A token-loop iteration at a byte 254 or 255 pushes the    *)
(* run token [254, run_len, byte] when at least 3 equal bytes lie ahead in  *)
(* the block, and otherwise the two bytes [255, byte], never the bare byte. *)
(* compress([254]), compress([255]) and compress([254,254,254]) have the    *)
(* payloads [255,254], [255,255] and [254,3,254].                           *)
C2_Escaping == [][C2_EscapeStep]_vars /\ []C2_Examples

\* compress has returned from a buffer with a run of three 254s and two lone flag bytes
C2_Witness ==
  /\ pc = "c_ret"
  /\ data = BufOf(<<254, 254, 254, 255, 254>>)
  /\ output = <<0, 0, 0, 1, 0, 0, 0, 7, 254, 3, 254, 255, 255, 255, 254>>

(* C3 as stated: 255 equal bytes give one block whose payload is the one    *)
(* run token [254, 255, v], and 256 equal bytes give a payload of two run   *)
(* tokens.                                                                  *)
C3_Original ==
  \A v \in RunBytes :
    /\ (pc = "c_ret" /\ data = << <<v, 255>> >>)
         => output = <<0, 0, 0, 1, 0, 0, 0, 3, 254, 255, v>>
    /\ (pc = "c_ret" /\ data = << <<v, 256>> >>)
         => /\ Len(output) = 4 + 4 + 3 + 3
            /\ output[9] = 254
            /\ output[12] = 254

(* C3 amended: 255 equal bytes give one block whose payload is the one run  *)
(* token [254, 255, v]; 256 equal bytes give that run token followed by a   *)
(* one-byte token for the last byte (v itself, or [255, v] when v is 254 or *)
(* 255); a second run token follows only when at least 3 bytes remain: 258  *)
(* equal bytes give [254, 255, v, 254, 3, v].                               *)
C3_RunBoundary ==
  \A v \in RunBytes :
    /\ (pc = "c_ret" /\ data = << <<v, 255>> >>)
         => output = <<0, 0, 0, 1, 0, 0, 0, 3, 254, 255, v>>
    /\ (pc = "c_ret" /\ data = << <<v, 256>> >>)
         => output = IF v \in {254, 255}
                     THEN <<0, 0, 0, 1, 0, 0, 0, 5, 254, 255, v, 255, v>>
                     ELSE <<0, 0, 0, 1, 0, 0, 0, 4, 254, 255, v, v>>
    /\ (pc = "c_ret" /\ data = << <<v, 258>> >>)
         => output = <<0, 0, 0, 1, 0, 0, 0, 6, 254, 255, v, 254, 3, v>>

\* compress has returned from 256 equal bytes
C3_Witness ==
  /\ pc = "c_ret"
  /\ data = << <<7, 256>> >>
  /\ output = <<0, 0, 0, 1, 0, 0, 0, 4, 254, 255, 7, 7>>

\* a token-loop iteration that pushes 3 bytes pushes a valid run token, and
\* one with fewer than 3 equal bytes ahead pushes a one-byte token
C4_RunStep ==
  TokenStep =>
    /\ (Len(Pushed) = 3) =>
          /\ Pushed[1] = 254
          /\ 3 <= Pushed[2] /\ Pushed[2] <= 255
          /\ i' = i + Pushed[2]
          /\ RunAhead(Pushed[2])
          /\ Pushed[3] = BlockAt(data, blk, i)
    /\ ~RunAhead(3) => (Len(Pushed) \in {1, 2} /\ i' = i + 1)

\* the output of compress([7,7])
C4_Example ==
  (pc = "c_ret" /\ data = BufOf(<<7, 7>>))
     => output = <<0, 0, 0, 1, 0, 0, 0, 2, 7, 7>>

(* C4: run-token validity.  A token-loop iteration that pushes a run token  *)
(* [254, run_len, value] has 3 <= run_len <= 255, moves the cursor by       *)
(* run_len, and the run_len bytes it passes lie in the current block and    *)
(* all equal value; an iteration with fewer than 3 equal bytes ahead pushes *)
(* a one-byte token and moves the cursor by 1.  compress([7,7]) has the     *)
(* payload [7,7].                                                           *)
C4_RunTokenValid == [][C4_RunStep]_vars /\ []C4_Example

\* compress has returned from a run of 2 followed by a run of 3
C4_Witness ==
  /\ pc = "c_ret"
  /\ data = BufOf(<<7, 7, 8, 8, 8>>)
  /\ output = <<0, 0, 0, 1, 0, 0, 0, 5, 7, 7, 254, 3, 8>>

(* C5: block splitting.  When compress returns, the block-count field is    *)
(* ceil(n / BLOCK_SIZE), equals the number of chunks taken and the number   *)
(* of (length prefix, payload) blocks that follow it; the token cursor      *)
(* never passes the end of its block; decoding the first k blocks gives     *)
(* exactly the first min(k * BLOCK_SIZE, n) raw bytes; BLOCK_SIZE + 1 equal *)
(* bytes give 2 blocks.                                                     *)
C5_BlockSplitting ==
  /\ pc = "c_ret" =>
       LET n == BufLen(data)
           cnt == FromBeBytes(SubSeq(output, 1, 4))
       IN /\ cnt = CeilDiv(n, BLOCK_SIZE)
          /\ cnt = blk
          /\ cnt = BlocksFrom(output, 4)
          /\ (data \in { << <<v, BLOCK_SIZE + 1>> >> : v \in RunBytes }) => cnt = 2
  /\ pc = "c_token" => i <= ChunkLen(BufLen(data), blk)
  /\ (pc = "d_block" /\ calls >= 2) =>
       decoded = BufTake(data, Min(blocks_done * BLOCK_SIZE, BufLen(data)))

\* decompress has finished the first of the 2 blocks of BLOCK_SIZE + 1 equal bytes
C5_Witness ==
  /\ pc = "d_block"
  /\ mode = "roundtrip"
  /\ data = << <<7, BLOCK_SIZE + 1>> >>
  /\ blocks_done = 1
  /\ block_count = 2
  /\ decoded = << <<7, BLOCK_SIZE>> >>

(* C6: empty input.  compress of the empty buffer returns exactly the 4     *)
(* bytes of a block count of 0, having taken no chunk; decompress of those  *)
(* 4 bytes returns the empty buffer and does not fail.                      *)
C6_EmptyInput ==
  /\ (pc = "c_ret" /\ data = <<>>) => (output = <<0, 0, 0, 0>> /\ blk = 0)
  /\ (pc = "d_ret" /\ compressed = <<0, 0, 0, 0>>) => decoded = <<>>
  /\ (compressed = <<0, 0, 0, 0>> /\ calls >= 1) => pc # "panic"

\* the empty buffer has gone through compress and decompress
C6_Witness ==
  /\ mode = "roundtrip"
  /\ pc = "d_ret"
  /\ data = <<>>
  /\ compressed = <<0, 0, 0, 0>>
  /\ decoded = <<>>

\* Where a buffer first departs from the framing, following its own block
\* count and length prefixes: "none"; "truncated" (no room for the block
\* count); "count" (a block is due and no room is left for its length
\* prefix); "length" (a length prefix exceeds the bytes that remain);
\* "operand_past_end" / "operand_in_buffer" (a flag byte at the end of a block
\* whose operand bytes are missing from the block, and lie past the end of
\* the buffer / are bytes of the buffer that follow the block).
RECURSIVE TokenDefect(_, _, _)
TokenDefect(c, at, end) ==
  IF at >= end THEN "none"
  ELSE LET need == IF c[at + 1] = 255 THEN 1 ELSE IF c[at + 1] = 254 THEN 2 ELSE 0
       IN IF at + need < end THEN TokenDefect(c, at + 1 + need, end)
          ELSE IF at + need < Len(c) THEN "operand_in_buffer"
          ELSE "operand_past_end"

RECURSIVE BlockDefect(_, _, _)
BlockDefect(c, at, n) ==
  IF n = 0 THEN "none"
  ELSE IF at + 4 > Len(c) THEN "count"
  ELSE LET end == at + 4 + FromBeBytes(SubSeq(c, at + 1, at + 4))
       IN IF end > Len(c) THEN "length"
          ELSE LET t == TokenDefect(c, at + 4, end)
               IN IF t # "none" THEN t ELSE BlockDefect(c, end, n - 1)

Defect(c) ==
  IF Len(c) < 4 THEN "truncated"
  ELSE BlockDefect(c, 4, FromBeBytes(SubSeq(c, 1, 4)))

\* the token stream c[at..end) is made of literals other than 254 and 255,
\* escaped literals 255 v with v in {254, 255} and run tokens 254 n v with
\* 3 <= n <= 255
RECURSIVE TokensInFormat(_, _, _)
TokensInFormat(c, at, end) ==
  IF at = end THEN TRUE
  ELSE IF c[at + 1] = 255
       THEN at + 2 <= end /\ c[at + 2] \in {254, 255}
            /\ TokensInFormat(c, at + 2, end)
  ELSE IF c[at + 1] = 254
       THEN at + 3 <= end /\ c[at + 2] >= 3 /\ c[at + 2] <= 255
            /\ TokensInFormat(c, at + 3, end)
  ELSE TokensInFormat(c, at + 1, end)

RECURSIVE BlocksInFormat(_, _, _)
BlocksInFormat(c, at, n) ==
  IF n = 0 THEN at = Len(c)
  ELSE /\ at + 4 <= Len(c)
       /\ LET end == at + 4 + FromBeBytes(SubSeq(c, at + 1, at + 4))
          IN /\ end <= Len(c)
             /\ TokensInFormat(c, at + 4, end)
             /\ BlocksInFormat(c, end, n - 1)

\* c follows the binary format: block count, then that many blocks, each a
\* length prefix and a payload of well-formed tokens, and nothing else
FollowsFormat(c) ==
  Len(c) >= 4 /\ BlocksInFormat(c, 4, FromBeBytes(SubSeq(c, 1, 4)))

\* the running (or returned) decompress call was given the session's input
DecodingInput == mode = "inverse" /\ calls = 1

(* C7 as stated: decompress never returns from a malformed buffer: a        *)
(* truncated one, one whose block count or a length prefix exceeds the      *)
(* bytes that remain, or one with a flag byte 254/255 at the end of a block *)
(* whose operands are missing from that block.                              *)
C7_Original ==
  (DecodingInput /\ Defect(compressed) # "none") => pc # "d_ret"

(* C7 amended: decompress never returns (it ends in an out-of-bounds        *)
(* access) when the buffer's first departure from the framing is a          *)
(* truncation, a block count or length prefix that exceeds the bytes that   *)
(* remain, or a flag byte 254/255 whose missing operands lie past the end   *)
(* of the buffer; and the panic is always at a read index at or past the    *)
(* end of the buffer.  (A flag byte at the end of a block whose operands    *)
(* are missing from the block but are followed by more bytes of the buffer  *)
(* takes those bytes as its operands, and decompress may return.)  Index    *)
(* arithmetic is that of a 64-bit usize: idx + comp_len does not wrap.      *)
C7_MalformedFatal ==
  /\ (DecodingInput /\ Defect(compressed) \in
         {"truncated", "count", "length", "operand_past_end"})
       => pc # "d_ret"
  /\ (pc = "panic" /\ DecodingInput) =>
       \/ idx + 4 > Len(compressed)
       \/ idx + Operands(compressed[idx + 1]) >= Len(compressed)

\* decompress has failed in the second block at a flag byte whose operand lies past the end
C7_Witness ==
  /\ DecodingInput
  /\ pc = "panic"
  /\ Defect(compressed) = "operand_past_end"
  /\ blocks_done = 2
  /\ decoded # <<>>

(* C8 as stated: for every compressed buffer C that follows the binary      *)
(* format, compress(decompress(C)) = C.                                     *)
C8_Original ==
  (pc = "c_ret" /\ mode = "inverse" /\ calls = 2 /\ FollowsFormat(compressed))
     => output = compressed

(* C8 amended: for every compressed buffer C that compress produced,        *)
(* compress(decompress(C)) = C.                                             *)
C8_InverseOnEncoderOutput ==
  (pc = "c_ret" /\ calls >= 3) => output = compressed

\* a compressed buffer has been decompressed and compressed again
C8_Witness ==
  /\ pc = "c_ret"
  /\ calls = 3
  /\ data = BufOf(<<7, 254, 8, 8, 8>>)
  /\ output = compressed
  /\ output = <<0, 0, 0, 1, 0, 0, 0, 6, 7, 255, 254, 254, 3, 8>>

(* C9: bounded expansion.  The payload built so far is at most twice the    *)
(* block bytes consumed so far, so a block's payload is at most twice its   *)
(* raw block; the returned buffer is at most                                *)
(* 4 + 4 * ceil(n / BLOCK_SIZE) + 2 * n bytes; and the length prefix        *)
(* written for a payload reads back as the payload's length.                *)
C9_BoundedExpansion ==
  /\ pc = "c_token" =>
       /\ Len(encoded) <= 2 * i
       /\ i <= ChunkLen(BufLen(data), blk)
       /\ FromBeBytes(ToBeBytes(Len(encoded))) = Len(encoded)
  /\ pc = "c_ret" =>
       Len(output) <= 4 + 4 * CeilDiv(BufLen(data), BLOCK_SIZE) + 2 * BufLen(data)

\* compress has returned from 5 flag bytes with no run of 3: the payload is twice the input
C9_Witness ==
  /\ pc = "c_ret"
  /\ data = BufOf(<<254, 255, 254, 254, 255>>)
  /\ Len(output) = 4 + 4 + 2 * 5

(* C10: decoder token alignment.  While decompress runs on a buffer that    *)
(* compress produced: it never fails; every token it is about to read lies  *)
(* wholly inside the current block, which lies inside the buffer; a block's *)
(* token loop ends with idx equal to block_end; and decompress returns with *)
(* idx equal to the length of the buffer.                                   *)
C10_TokenAlignment ==
  DecodingEncoderOutput =>
    /\ pc # "panic"
    /\ block_end <= Len(compressed)
    /\ pc = "d_token" =>
         /\ idx <= block_end
         /\ idx < block_end =>
              idx + Operands(compressed[idx + 1]) < block_end
    /\ (pc = "d_block" /\ blocks_done > 0) => idx = block_end
    /\ pc = "d_block" => SliceInBounds(compressed, idx) \/ blocks_done = block_count
    /\ pc = "d_ret" => idx = Len(compressed)

\* decompress has returned from a buffer with escaped literals and a run token
C10_Witness ==
  /\ mode = "roundtrip"
  /\ pc = "d_ret"
  /\ data = BufOf(<<255, 7, 7, 7, 254>>)
  /\ compressed = <<0, 0, 0, 1, 0, 0, 0, 7, 255, 255, 254, 3, 7, 255, 254>>
  /\ idx = 15
  /\ block_end = 15

====
